---- MODULE Spec2Model ----
(***************************************************************************)
(* Model of mc3ds/convert.py: the conversion of a 3DS chunk database (CDB) *)
(* world into region files.  convert() is a sequential procedure; pc is    *)
(* its position, one label per statement group of the source.              *)
(*                                                                         *)
(* World (mc3ds/classes.py) and parser (mc3ds/parser.py) are imported by   *)
(* convert.py; their results are modelled from the design document and     *)
(* are marked so where they are defined.                                   *)
(***************************************************************************)
EXTENDS Integers, Sequences, FiniteSets, TLC

VARIABLES
    pc,               \* position of the running call
    error,            \* the exception that ended the run, "" if none
    delete_out,       \* argument delete_out of convert
    world_out,        \* the output world directory on disk
    world_out0,       \* history: world_out when convert was called
    cdb,              \* world.cdb: (slot, subfile) -> chunk record
    entries,          \* world.entries: ordered mapping position -> entry
    recovered,        \* world.recovered: ordered mapping position -> copies
    indexFile,        \* newindex.cdb on disk
    indexFile0,       \* history: newindex.cdb as the current call found it
    index,            \* fix_cdb_index: the parsed index (local)
    chunks_fixed,     \* fix_cdb_index: the counter (local, then returned)
    fixRuns,          \* number of calls of fix_cdb_index started
    blocks,           \* convert: the parsed block table (local)
    chunk_converters, \* convert: list of ChunkConverter (local)
    cursor,           \* convert: index of the next chunk_converter to convert
    regions,          \* convert: ordered dict region_position -> RegionConverter
    saved,            \* region files written, in order of writing
    stderr            \* diagnostics printed to sys.stderr

vars == <<pc, error, delete_out, world_out, world_out0, cdb, entries, recovered,
          indexFile, indexFile0, index, chunks_fixed, fixRuns, blocks,
          chunk_converters, cursor, regions, saved, stderr>>

---------------------------------------------------------------------------
(* Program constants *)

OVERWORLD == 0
NETHER == 1
END == 2

(* Bounds of the model *)

\* cells of one subchunk: 0x1000 in the source (lines 43, 51, 56)
SubchunkCells == 4
\* subchunks per record: len(entry.blocks), 8 in the format
NumSubchunks == 1
\* longest index file, in entries
MaxIndexEntries == 2
\* calls of fix_cdb_index in a row (SpecRepair)
MaxRuns == 2

---------------------------------------------------------------------------
(* Input domains *)

\* chunk positions (chunk_x, chunk_z, dimension): two in one region, one in
\* another region (negative x, so that // must floor) of another dimension
PosSeq == << <<5, 5, OVERWORLD>>, <<31, 5, OVERWORLD>>, <<-1, 32, NETHER>> >>
Positions == { PosSeq[k] : k \in 1..Len(PosSeq) }

\* the (slot, subfile) pairs of the database, in the order a raw scan meets them
LocSeq == << <<2, 9>>, <<3, 1>>, <<3, 4>> >>
Locs == { LocSeq[k] : k \in 1..Len(LocSeq) }

IndexOf(seq, v) == CHOOSE k \in 1..Len(seq) : seq[k] = v

Cycle(s, i) == s[((i - 1) % Len(s)) + 1]

\* contents of a subchunk, as (block-id bytes, packed data-nibble bytes):
\*  1: cells (1,0) (5,2) (0,0) (7,3) ...   2: (0,4) (1,0) (1,1) (0,0) ...   3: air
Patterns == << [ids |-> <<1, 5, 0, 7>>, nibbles |-> <<32, 48>>],
               [ids |-> <<0, 1, 1, 0>>, nibbles |-> <<4, 1>>],
               [ids |-> <<0>>, nibbles |-> <<0>>] >>

\* one subchunk: SubchunkCells id bytes followed by the packed nibbles
SubchunkArray(p) ==
    [i \in 1..(SubchunkCells + (SubchunkCells + 1) \div 2) |->
        IF i <= SubchunkCells THEN Cycle(Patterns[p].ids, i)
        ELSE Cycle(Patterns[p].nibbles, i - SubchunkCells)]

\* the block arrays of the record of chunk pos stored at loc (copies of one
\* chunk at two locations differ: one of them is the stale copy)
RecordBlocks(loc, pos) ==
    [s \in 1..NumSubchunks |->
        SubchunkArray(((IndexOf(LocSeq, loc) + IndexOf(PosSeq, pos) + s) % Len(Patterns)) + 1)]

\* header parameters of the record stored at a location
ParamsAt(loc) == 100 * loc[1] + loc[2]

\* what an unparseable (slot, subfile) holds
NoRecord == [parseable |-> FALSE, position |-> <<0, 0, 0>>, parameters |-> 0, blocks |-> <<>>]

Records(loc) ==
    { [parseable |-> TRUE, position |-> pos, parameters |-> ParamsAt(loc),
       blocks |-> RecordBlocks(loc, pos)] : pos \in Positions }

Databases == { db \in [Locs -> UNION { Records(l) : l \in Locs } \cup {NoRecord}] :
                 \A l \in Locs : db[l] = NoRecord \/ db[l] \in Records(l) }

---------------------------------------------------------------------------
(* parser: positions and index entries *)

\* parser.Position(x, z, dimension)
Position(x, z, dimension) == [x |-> x, z |-> z, dimension |-> dimension]

\* classes.parse_position: the (x, z, dimension) tuple of a parser.Position
parse_position(p) == <<p.x, p.z, p.dimension>>

\* an index entry as it is stored: its parameters are those of the record it
\* names, or stale
IndexEntries ==
    UNION { { [position |-> Position(pos[1], pos[2], pos[3]), slot |-> loc[1],
               subfile |-> loc[2], parameters |-> prm] :
                pos \in Positions, prm \in {ParamsAt(loc), NoRecord.parameters} } :
            loc \in Locs }

\* index files hold at most one entry per position
Indexes ==
    { idx \in UNION { [1..n -> IndexEntries] : n \in 0..MaxIndexEntries } :
        \A i, j \in 1..Len(idx) : idx[i].position = idx[j].position => i = j }

\* parser.Index(handle).dumps(): the bytes of an index
IndexDumps(idx) == [kind |-> "index", entries |-> idx]

\* a file parser.Index cannot read, and the file open(path, "wb") leaves
UnreadableFile == [kind |-> "unreadable", entries |-> <<>>]
TruncatedFile == [kind |-> "truncated", entries |-> <<>>]

\* Entry(header, record): entry.blocks are the record's block arrays
Entry(header, record) == [header |-> header, blocks |-> record.blocks]
NoneEntry == [header |-> [position |-> Position(0, 0, 0), slot |-> -1, subfile |-> -1,
                          parameters |-> 0],
              blocks |-> <<>>]

\* World.entries: per index entry, the Entry of the record it names, or the
\* placeholder True where that record does not parse
LoadEntries(idx, db) ==
    [i \in 1..Len(idx) |->
        LET e == idx[i]
            rec == db[<<e.slot, e.subfile>>]
        IN [position |-> parse_position(e.position),
            corrupted |-> ~rec.parseable,
            entry |-> IF rec.parseable THEN Entry(e, rec) ELSE NoneEntry]]

\* lookup in an ordered mapping (a sequence of records with field position)
HasKey(m, pos) == \E i \in 1..Len(m) : m[i].position = pos
Get(m, pos) == m[CHOOSE i \in 1..Len(m) : m[i].position = pos]

\* World.recover_data: scan every (slot, subfile) in order; append each
\* parseable record's location to the list of the position it claims
RECURSIVE Scan(_, _, _)
Scan(db, k, acc) ==
    IF k > Len(LocSeq) THEN acc
    ELSE LET loc == LocSeq[k]
             rec == db[loc]
         IN IF ~rec.parseable THEN Scan(db, k + 1, acc)
            ELSE IF HasKey(acc, rec.position)
            THEN Scan(db, k + 1,
                      [i \in 1..Len(acc) |->
                          IF acc[i].position = rec.position
                          THEN [acc[i] EXCEPT !.found = Append(@, loc)]
                          ELSE acc[i]])
            ELSE Scan(db, k + 1, Append(acc, [position |-> rec.position, found |-> <<loc>>]))

recover_data(db) == Scan(db, 1, <<>>)

---------------------------------------------------------------------------
(* Blocks *)

\* anvil.Block(namespace, name, properties)
Block(namespace, name, properties) ==
    [namespace |-> namespace, name |-> name, properties |-> properties]

\* data/blocks.json: keys "<id>:<data>" split at the colon, values
\* "<namespace>:<name>[<key>=<value>,...]" as the regular expression and the
\* splits of parse_block_json cut them
raw_blocks ==
    { [id |-> <<1, 0>>, name |-> <<"minecraft", "stone">>, nbt |-> <<>>],
      [id |-> <<5, 2>>, name |-> <<"minecraft", "wood">>, nbt |-> << <<"variant", "birch">> >>] }

parse_block_json(raw) ==
    [block_id \in { r.id : r \in raw } |->
        LET new == CHOOSE r \in raw : r.id = block_id
            nbt_data == [key \in { new.nbt[i][1] : i \in 1..Len(new.nbt) } |->
                            (CHOOSE i \in 1..Len(new.nbt) : new.nbt[i][1] = key) ]
        IN Block(new.name[1], new.name[2],
                 [key \in DOMAIN nbt_data |-> new.nbt[nbt_data[key]][2]])]

\* ChunkConverter.corrupted_block
corrupted_block == Block("minecraft", "glass", <<>>)

\* the block substituted for an unknown block id
unknown_block == Block("minecraft", "netherite_block", <<>>)

---------------------------------------------------------------------------
(* ChunkConverter *)

ChunkConverter(position, entry, corrupted) ==
    [region_x |-> position[1], region_z |-> position[2], dimension |-> position[3],
     entry |-> entry, corrupted |-> corrupted,
     placed |-> FALSE, chunk |-> <<>>]

\* EmptyChunk.set_block: the cell at (x, y, z) becomes block
set_block(cells, block, at) ==
    [c \in DOMAIN cells \cup {at} |-> IF c = at THEN block ELSE cells[c]]

\* block_data with the halves of the packed byte taken the other way round
block_data_swapped(blks, position) ==
    LET block_byte == blks[(SubchunkCells + position \div 2) + 1]
    IN IF position % 2 = 0 THEN block_byte \div 16 ELSE block_byte % 16

\* lines 56-60: the data nibble of cell position of a subchunk array
block_data(blks, position) ==
    LET block_byte == blks[(SubchunkCells + position \div 2) + 1]
    IN IF position % 2 = 0 THEN block_byte % 16 ELSE block_byte \div 16

\* the cell coordinates of cell position of subchunk subchunk_y
cell_at(subchunk_y, position) ==
    << position \div 256, (position % 16) + subchunk_y * 16, (position % 256) \div 16 >>

\* the body of the two loops of place_blocks for one cell; acc holds the
\* cells set so far and the diagnostics printed so far
place_cell(table, dimension, blks, subchunk_y, position, acc) ==
    LET block_id == << blks[position + 1], block_data(blks, position) >>
        at == cell_at(subchunk_y, position)
    IN IF block_id # <<0, 0>>
       THEN IF block_id \in DOMAIN table
            THEN [acc EXCEPT !.cells = set_block(@, table[block_id], at)]
            ELSE [cells |-> set_block(acc.cells, unknown_block, at),
                  printed |-> Append(acc.printed,
                      [block_id |-> block_id, at |-> at, dimension |-> dimension])]
       ELSE acc

\* the loops of place_blocks, cell n of the whole record onwards
RECURSIVE place_from(_, _, _, _, _)
place_from(table, dimension, entry_blocks, n, acc) ==
    IF n >= Len(entry_blocks) * SubchunkCells THEN acc
    ELSE place_from(table, dimension, entry_blocks, n + 1,
                    place_cell(table, dimension, entry_blocks[(n \div SubchunkCells) + 1],
                               n \div SubchunkCells, n % SubchunkCells, acc))

\* the disabled branch of place_blocks: every cell of 8 subchunks is glass
fill_corrupted ==
    [at \in { cell_at(s, p) : s \in 0..7, p \in 0..(SubchunkCells - 1) } |-> corrupted_block]

\* place_blocks: raises AttributeError where self.entry is None
place_blocks(c, table) ==
    IF FALSE /\ c.corrupted
    THEN [raised |-> "", cells |-> fill_corrupted, printed |-> <<>>]
    ELSE IF c.entry = NoneEntry
    THEN [raised |-> "AttributeError", cells |-> <<>>, printed |-> <<>>]
    ELSE LET done == place_from(table, c.dimension, c.entry.blocks, 0,
                                [cells |-> <<>>, printed |-> <<>>])
         IN [raised |-> "", cells |-> done.cells, printed |-> done.printed]

\* region_position with a division that rounds towards zero
region_position_truncating(c) ==
    LET quot(a) == IF a < 0 THEN -((-a) \div 32) ELSE a \div 32
    IN << quot(c.region_x), quot(c.region_z), c.dimension >>

\* ChunkConverter.region_position
region_position(c) == << c.region_x \div 32, c.region_z \div 32, c.dimension >>

\* RegionConverter.__init__: the directory of the dimension, "" for ValueError
dimension_path(dimension) ==
    IF dimension = OVERWORLD THEN "."
    ELSE IF dimension = NETHER THEN "DIM-1"
    ELSE IF dimension = END THEN "DIM1"
    ELSE ""

---------------------------------------------------------------------------
(* The output directory *)

AbsentDir == [exists |-> FALSE, stale |-> FALSE, template |-> FALSE, level_name |-> FALSE]
\* a directory left by an earlier run or by the user
StaleDir == [exists |-> TRUE, stale |-> TRUE, template |-> FALSE, level_name |-> FALSE]
\* shutil.copytree(blank_world, world_out)
TemplateDir == [exists |-> TRUE, stale |-> FALSE, template |-> TRUE, level_name |-> FALSE]

---------------------------------------------------------------------------
(* Initial states *)

Idle ==
    /\ error = ""
    /\ recovered = <<>>
    /\ index = <<>>
    /\ chunks_fixed = 0
    /\ fixRuns = 0
    /\ blocks = <<>>
    /\ chunk_converters = <<>>
    /\ cursor = 1
    /\ regions = <<>>
    /\ saved = <<>>
    /\ stderr = <<>>

\* an index entry names an unparseable record or a record of its own position
Consistent(idx, db) ==
    \A i \in 1..Len(idx) :
        LET rec == db[<<idx[i].slot, idx[i].subfile>>]
        IN rec.parseable => rec.position = parse_position(idx[i].position)

\* a loaded World, an index file and an output path, before convert is called
Init ==
    /\ pc = "start"
    /\ delete_out \in BOOLEAN
    /\ world_out \in {AbsentDir, StaleDir}
    /\ world_out0 = world_out
    /\ cdb \in Databases
    /\ \E idx \in Indexes :
        /\ Consistent(idx, cdb)
        /\ entries = LoadEntries(idx, cdb)
        /\ indexFile \in {IndexDumps(idx), UnreadableFile}
    /\ indexFile0 = indexFile
    /\ Idle

\* a loaded and scanned World and an index file, before fix_cdb_index is called
InitRepair ==
    /\ pc = "fix_open"
    /\ delete_out = FALSE
    /\ world_out = AbsentDir
    /\ world_out0 = world_out
    /\ cdb \in Databases
    /\ \E idx \in Indexes :
        /\ Consistent(idx, cdb)
        /\ entries = LoadEntries(idx, cdb)
        /\ indexFile \in {IndexDumps(idx), UnreadableFile}
    /\ indexFile0 = indexFile
    /\ error = ""
    /\ recovered = recover_data(cdb)
    /\ index = <<>>
    /\ chunks_fixed = 0
    /\ fixRuns = 0
    /\ blocks = <<>>
    /\ chunk_converters = <<>>
    /\ cursor = 1
    /\ regions = <<>>
    /\ saved = <<>>
    /\ stderr = <<>>

---------------------------------------------------------------------------
(* convert, lines 163-216 *)

Fail(exception) ==
    /\ pc' = "failed"
    /\ error' = exception

\* ConvertStart without the test of delete_out: an existing directory is
\* always deleted
ConvertStart_always_deletes ==
    /\ pc = "start"
    /\ world_out' = AbsentDir
    /\ pc' = "copytree"
    /\ UNCHANGED <<error, delete_out, world_out0, cdb, entries, recovered, indexFile,
                   indexFile0, index, chunks_fixed, fixRuns, blocks, chunk_converters,
                   cursor, regions, saved, stderr>>

\* lines 163-167
ConvertStart ==
    /\ pc = "start"
    /\ IF world_out.exists
       THEN IF delete_out
            THEN /\ world_out' = AbsentDir
                 /\ pc' = "copytree"
                 /\ UNCHANGED error
            ELSE /\ Fail("FileExistsError")
                 /\ UNCHANGED world_out
       ELSE /\ pc' = "copytree"
            /\ UNCHANGED <<world_out, error>>
    /\ UNCHANGED <<delete_out, world_out0, cdb, entries, recovered, indexFile, indexFile0,
                   index, chunks_fixed, fixRuns, blocks, chunk_converters, cursor,
                   regions, saved, stderr>>

\* line 168
CopyTree ==
    /\ pc = "copytree"
    /\ IF world_out.exists
       THEN /\ Fail("FileExistsError")
            /\ UNCHANGED world_out
       ELSE /\ world_out' = TemplateDir
            /\ pc' = "level"
            /\ UNCHANGED error
    /\ UNCHANGED <<delete_out, world_out0, cdb, entries, recovered, indexFile, indexFile0,
                   index, chunks_fixed, fixRuns, blocks, chunk_converters, cursor,
                   regions, saved, stderr>>

\* lines 169-170
SetLevelName ==
    /\ pc = "level"
    /\ world_out' = [world_out EXCEPT !.level_name = TRUE]
    /\ pc' = "load_blocks"
    /\ UNCHANGED <<error, delete_out, world_out0, cdb, entries, recovered, indexFile,
                   indexFile0, index, chunks_fixed, fixRuns, blocks, chunk_converters,
                   cursor, regions, saved, stderr>>

\* lines 173-175
LoadBlocks ==
    /\ pc = "load_blocks"
    /\ blocks' = parse_block_json(raw_blocks)
    /\ pc' = "recover"
    /\ UNCHANGED <<error, delete_out, world_out, world_out0, cdb, entries, recovered,
                   indexFile, indexFile0, index, chunks_fixed, fixRuns, chunk_converters,
                   cursor, regions, saved, stderr>>

\* lines 179-187
RecoverData ==
    /\ pc = "recover"
    /\ recovered' = recover_data(cdb)
    /\ pc' = "build"
    /\ UNCHANGED <<error, delete_out, world_out, world_out0, cdb, entries, indexFile,
                   indexFile0, index, chunks_fixed, fixRuns, blocks, chunk_converters,
                   cursor, regions, saved, stderr>>

\* lines 193-197: one converter per item of world.entries
entry_converters(ents) ==
    [i \in 1..Len(ents) |->
        IF ents[i].corrupted
        THEN ChunkConverter(ents[i].position, NoneEntry, TRUE)
        ELSE ChunkConverter(ents[i].position, ents[i].entry, FALSE)]

\* lines 199-213: one converter per item of world.recovered, from its first copy
recovered_converters(rec, db) ==
    [i \in 1..Len(rec) |->
        LET recover_position == rec[i].position
            slot == rec[i].found[1][1]
            subfile == rec[i].found[1][2]
            header == [position |-> Position(recover_position[1], recover_position[2],
                                             recover_position[3]),
                       slot |-> slot, subfile |-> subfile,
                       parameters |-> <<8447, 10, 1, 32768>>]
        IN ChunkConverter(recover_position, Entry(header, db[<<slot, subfile>>]), FALSE)]

\* lines 190-213
BuildConverters ==
    /\ pc = "build"
    /\ chunk_converters' = entry_converters(entries) \o recovered_converters(recovered, cdb)
    /\ pc' = "fix_open"
    /\ UNCHANGED <<error, delete_out, world_out, world_out0, cdb, entries, recovered,
                   indexFile, indexFile0, index, chunks_fixed, fixRuns, blocks, cursor,
                   regions, saved, stderr>>

---------------------------------------------------------------------------
(* fix_cdb_index, lines 133-154 *)

\* lines 134-138
FixOpenRead ==
    /\ pc = "fix_open"
    /\ fixRuns' = fixRuns + 1
    /\ indexFile0' = indexFile
    /\ IF indexFile.kind = "index"
       THEN /\ index' = indexFile.entries
            /\ chunks_fixed' = 0
            /\ pc' = "fix_patch"
            /\ UNCHANGED error
       ELSE /\ Fail("ParseError")
            /\ UNCHANGED <<index, chunks_fixed>>
    /\ UNCHANGED <<delete_out, world_out, world_out0, cdb, entries, recovered, indexFile,
                   blocks, chunk_converters, cursor, regions, saved, stderr>>

\* lines 140-144: whether the loop body reaches line 145 for this entry
is_recovered(entry, rec) == HasKey(rec, parse_position(entry.position))

\* lines 145-149
patch_entry(entry, rec, db) ==
    LET chunk_copies == Get(rec, parse_position(entry.position)).found
        slot == chunk_copies[1][1]
        subfile == chunk_copies[1][2]
    IN [entry EXCEPT !.slot = slot, !.subfile = subfile,
                     !.parameters = db[<<slot, subfile>>].parameters]

\* lines 139-150, the entries after the loop
patch_entries(idx, rec, db) ==
    [i \in 1..Len(idx) |->
        IF is_recovered(idx[i], rec) THEN patch_entry(idx[i], rec, db) ELSE idx[i]]

\* lines 138-150, the counter after the loop
count_fixed(idx, rec, db) ==
    Cardinality({ i \in 1..Len(idx) : is_recovered(idx[i], rec) })

\* lines 139-151 (and the return of line 154 when nothing was counted)
FixPatch ==
    /\ pc = "fix_patch"
    /\ index' = patch_entries(index, recovered, cdb)
    /\ chunks_fixed' = count_fixed(index, recovered, cdb)
    /\ pc' = IF chunks_fixed' # 0 THEN "fix_write_open" ELSE "fix_returned"
    /\ UNCHANGED <<error, delete_out, world_out, world_out0, cdb, entries, recovered,
                   indexFile, indexFile0, fixRuns, blocks, chunk_converters, cursor,
                   regions, saved, stderr>>

\* line 152: open(path, "wb") truncates the file
FixOpenWrite ==
    /\ pc = "fix_write_open"
    /\ indexFile' = TruncatedFile
    /\ pc' = "fix_write"
    /\ UNCHANGED <<error, delete_out, world_out, world_out0, cdb, entries, recovered,
                   indexFile0, index, chunks_fixed, fixRuns, blocks, chunk_converters,
                   cursor, regions, saved, stderr>>

\* lines 153-154
FixWrite ==
    /\ pc = "fix_write"
    /\ indexFile' = IndexDumps(index)
    /\ pc' = "fix_returned"
    /\ UNCHANGED <<error, delete_out, world_out, world_out0, cdb, entries, recovered,
                   indexFile0, index, chunks_fixed, fixRuns, blocks, chunk_converters,
                   cursor, regions, saved, stderr>>

---------------------------------------------------------------------------
(* convert, lines 214-241 *)

\* lines 214-216 and the entry of the loop of line 225; an empty loop falls
\* through the loop of line 240 as well
ReportFixed ==
    /\ pc = "fix_returned"
    /\ pc' = IF Len(chunk_converters) = 0 THEN "done" ELSE "convert_chunks"
    /\ UNCHANGED <<error, delete_out, world_out, world_out0, cdb, entries, recovered,
                   indexFile, indexFile0, index, chunks_fixed, fixRuns, blocks,
                   chunk_converters, cursor, regions, saved, stderr>>

\* lines 229-235: the region of the chunk, made on first use, takes the chunk;
\* chunks are named by the index of their converter
add_to_region(regs, region_pos, i) ==
    IF HasKey(regs, region_pos)
    THEN [r \in 1..Len(regs) |->
             IF regs[r].position = region_pos
             THEN [regs[r] EXCEPT !.chunks = Append(@, i)]
             ELSE regs[r]]
    ELSE Append(regs, [position |-> region_pos, chunks |-> <<i>>])

\* lines 225-235, one iteration
ConvertChunk ==
    /\ pc = "convert_chunks"
    /\ cursor <= Len(chunk_converters)
    /\ LET chunk_converter == chunk_converters[cursor]
           result == place_blocks(chunk_converter, blocks)
           region_pos == region_position(chunk_converter)
       IN IF result.raised # ""
          THEN /\ Fail(result.raised)
               /\ UNCHANGED <<chunk_converters, cursor, regions, stderr>>
          ELSE /\ chunk_converters' =
                     [chunk_converters EXCEPT ![cursor].placed = TRUE,
                                              ![cursor].chunk = result.cells]
               /\ stderr' = stderr \o [k \in 1..Len(result.printed) |->
                                          [chunk |-> cursor, line |-> result.printed[k]]]
               /\ IF ~HasKey(regions, region_pos) /\ dimension_path(region_pos[3]) = ""
                  THEN /\ Fail("ValueError")
                       /\ UNCHANGED <<cursor, regions>>
                  ELSE /\ regions' = add_to_region(regions, region_pos, cursor)
                       /\ cursor' = cursor + 1
                       /\ pc' = IF cursor = Len(chunk_converters)
                                THEN "save_regions" ELSE "convert_chunks"
                       /\ UNCHANGED error
    /\ UNCHANGED <<delete_out, world_out, world_out0, cdb, entries, recovered, indexFile,
                   indexFile0, index, chunks_fixed, fixRuns, blocks, saved>>

\* lines 240-241, one iteration: RegionConverter.save writes the region file
SaveRegion ==
    /\ pc = "save_regions"
    /\ Len(saved) < Len(regions)
    /\ LET region == regions[Len(saved) + 1]
       IN saved' = Append(saved, [position |-> region.position,
                                  directory |-> dimension_path(region.position[3]),
                                  chunks |-> region.chunks])
    /\ pc' = IF Len(saved') = Len(regions) THEN "done" ELSE "save_regions"
    /\ UNCHANGED <<error, delete_out, world_out, world_out0, cdb, entries, recovered,
                   indexFile, indexFile0, index, chunks_fixed, fixRuns, blocks,
                   chunk_converters, cursor, regions, stderr>>

\* the process is killed (cancellation) between two statements
Abort ==
    /\ pc \notin {"done", "failed", "aborted"}
    /\ pc' = "aborted"
    /\ UNCHANGED <<error, delete_out, world_out, world_out0, cdb, entries, recovered,
                   indexFile, indexFile0, index, chunks_fixed, fixRuns, blocks,
                   chunk_converters, cursor, regions, saved, stderr>>

Next ==
    \/ ConvertStart
    \/ CopyTree
    \/ SetLevelName
    \/ LoadBlocks
    \/ RecoverData
    \/ BuildConverters
    \/ FixOpenRead
    \/ FixPatch
    \/ FixOpenWrite
    \/ FixWrite
    \/ ReportFixed
    \/ ConvertChunk
    \/ SaveRegion
    \/ Abort

Spec == Init /\ [][Next]_vars

\* fix_cdb_index called again on the same path and world after it returned
FixAgain ==
    /\ pc = "fix_returned"
    /\ fixRuns < MaxRuns
    /\ pc' = "fix_open"
    /\ UNCHANGED <<error, delete_out, world_out, world_out0, cdb, entries, recovered,
                   indexFile, indexFile0, index, chunks_fixed, fixRuns, blocks,
                   chunk_converters, cursor, regions, saved, stderr>>

NextRepair ==
    \/ FixOpenRead
    \/ FixPatch
    \/ FixOpenWrite
    \/ FixWrite
    \/ FixAgain
    \/ Abort

SpecRepair == InitRepair /\ [][NextRepair]_vars

---------------------------------------------------------------------------
(* Claims *)

\* the (slot, subfile) a converter's entry was read from
source_of(c) == <<c.entry.header.slot, c.entry.header.subfile>>

ConverterPosition(c) == <<c.region_x, c.region_z, c.dimension>>

\* C1: a second call of fix_cdb_index in a row, with the database and the
\* recovered set unchanged, returns 0 and does not write the index file again
C1_SecondRunChangesNothing ==
    fixRuns >= 2 =>
        /\ pc \notin {"fix_write_open", "fix_write"}
        /\ pc = "fix_returned" => chunks_fixed = 0

\* C2: when fix_cdb_index returns, every index entry whose position is
\* recovered names the first copy of its position, with that record's header
\* parameters, and the count returned is the number of entries that changed
C2_RepairedAndCounted ==
    (pc = "fix_returned" /\ fixRuns = 1) =>
        /\ \A i \in 1..Len(index) :
              HasKey(recovered, parse_position(index[i].position)) =>
                  LET first == Get(recovered, parse_position(index[i].position)).found[1]
                  IN /\ index[i].slot = first[1]
                     /\ index[i].subfile = first[2]
                     /\ index[i].parameters = cdb[first].parameters
        /\ chunks_fixed =
              Cardinality({ i \in 1..Len(index) : index[i] # indexFile0.entries[i] })

\* a converter made for a lost chunk: the placeholder of world.entries at a
\* position without recovered copies
IsLost(c) == c.corrupted /\ ~HasKey(recovered, ConverterPosition(c))

\* C3: a lost chunk is not an error: the run never fails at the converter of
\* a lost chunk, whose place_blocks leaves an all-air chunk
C3_LostChunkIsNoError ==
    \A i \in 1..Len(chunk_converters) :
        IsLost(chunk_converters[i]) =>
            /\ ~(pc = "failed" /\ error = "AttributeError" /\ cursor = i)
            /\ chunk_converters[i].placed => DOMAIN chunk_converters[i].chunk = {}

\* the (block id, data nibble) pair of cell position of a subchunk array: the
\* id byte, and the low (even cell) or high (odd cell) half of the packed byte
C4_Pair(blks, position) ==
    LET packed == blks[SubchunkCells + 1 + (position \div 2)]
    IN << blks[position + 1],
          IF position % 2 = 0 THEN packed % 16 ELSE packed \div 16 >>

C4_At(subchunk_y, position) ==
    << position \div 256, (position % 16) + 16 * subchunk_y, (position % 256) \div 16 >>

\* C4: in a chunk place_blocks has decoded, a cell whose pair is in the table
\* holds the table's block; a cell whose pair is missing holds the sentinel
\* and has exactly one diagnostic; a (0,0) cell is not set; an unknown block
\* never ends the run
C4_CellsTranslated ==
    /\ \A i \in 1..Len(chunk_converters) :
          LET c == chunk_converters[i]
          IN c.placed =>
               \A s \in 1..Len(c.entry.blocks), position \in 0..(SubchunkCells - 1) :
                   LET pair == C4_Pair(c.entry.blocks[s], position)
                       at == C4_At(s - 1, position)
                       lines == { k \in 1..Len(stderr) :
                                    stderr[k].chunk = i /\ stderr[k].line.at = at }
                   IN IF pair = <<0, 0>>
                      THEN at \notin DOMAIN c.chunk /\ lines = {}
                      ELSE IF pair \in DOMAIN blocks
                      THEN /\ at \in DOMAIN c.chunk
                           /\ c.chunk[at] = blocks[pair]
                           /\ lines = {}
                      ELSE /\ at \in DOMAIN c.chunk
                           /\ c.chunk[at] = Block("minecraft", "netherite_block", <<>>)
                           /\ Cardinality(lines) = 1
                           /\ \A k \in lines :
                                 /\ stderr[k].line.block_id = pair
                                 /\ stderr[k].line.dimension = c.dimension
    /\ (pc = "failed" /\ error \notin {"FileExistsError", "ParseError"})
         => (cursor <= Len(chunk_converters) /\ chunk_converters[cursor].entry = NoneEntry)

\* a decoded chunk with a translated cell, a sentinel cell and an air cell
C4_Witness ==
    \E i \in 1..Len(chunk_converters) :
        LET c == chunk_converters[i]
        IN /\ c.placed
           /\ \E at \in DOMAIN c.chunk : c.chunk[at] = Block("minecraft", "stone", <<>>)
           /\ \E at \in DOMAIN c.chunk : c.chunk[at] = unknown_block
           /\ \E k \in 1..Len(stderr) : stderr[k].chunk = i
           /\ Cardinality(DOMAIN c.chunk) < Len(c.entry.blocks) * SubchunkCells

\* C5: a run that fails on the load of the index file has not touched the
\* output directory
C5_IndexFailureBeforeOutput ==
    (pc = "failed" /\ error = "ParseError") => world_out = world_out0

\* C6: the index file on disk is, at every moment, the complete index the
\* call found or the complete patched index
C6_IndexFileNeverPartial ==
    \/ indexFile = indexFile0
    \/ indexFile = IndexDumps(index)

\* C7: with the output directory present and no delete_out, the first step
\* of convert raises FileExistsError and changes nothing else; with
\* delete_out it deletes the directory, the next step copies the template,
\* and nothing is written into a directory that is not that copy
C7_ExistingOutput ==
    /\ [][(pc = "start" /\ world_out.exists /\ ~delete_out) =>
            /\ pc' \in {"failed", "aborted"}
            /\ pc' = "failed" => error' = "FileExistsError"
            /\ UNCHANGED <<delete_out, world_out, world_out0, cdb, entries, recovered,
                           indexFile, indexFile0, index, chunks_fixed, fixRuns, blocks,
                           chunk_converters, cursor, regions, saved, stderr>>]_vars
    /\ [][(pc = "start" /\ world_out.exists /\ delete_out /\ pc' # "aborted") =>
            /\ world_out' = AbsentDir
            /\ pc' = "copytree"]_vars
    /\ [][(pc = "copytree" /\ pc' # "aborted") =>
            /\ world_out' = TemplateDir
            /\ UNCHANGED <<indexFile, saved>>]_vars
    /\ []((world_out0.exists /\ ~delete_out) =>
            /\ pc \in {"start", "failed", "aborted"}
            /\ world_out = world_out0
            /\ indexFile = indexFile0
            /\ saved = <<>>)
    /\ []((world_out.level_name \/ saved # <<>> \/ indexFile # indexFile0) =>
            (world_out.template /\ ~world_out.stale))

\* convert has refused to run over an existing output directory
C7_Witness ==
    /\ pc = "failed"
    /\ error = "FileExistsError"
    /\ world_out = StaleDir
    /\ ~delete_out

\* the region key of a converter: chunk coordinates floor-divided by 32
C8_Key(c) == << c.region_x \div 32, c.region_z \div 32, c.dimension >>

C8_Destined(key) ==
    { i \in 1..Len(chunk_converters) : C8_Key(chunk_converters[i]) = key }

\* C8: every converted chunk is in exactly one region, the one of its key;
\* regions have distinct keys; a region is saved once, holding every chunk
\* destined for it; a finished run has saved every region
C8_RegionsGrouped ==
    /\ \A i \in 1..Len(chunk_converters) :
          chunk_converters[i].placed =>
              /\ Cardinality({ rk \in { <<r, k>> : r \in 1..Len(regions),
                                                   k \in 1..Len(chunk_converters) } :
                                  /\ rk[2] <= Len(regions[rk[1]].chunks)
                                  /\ regions[rk[1]].chunks[rk[2]] = i }) = 1
              /\ \A r \in 1..Len(regions) :
                    (\E k \in 1..Len(regions[r].chunks) : regions[r].chunks[k] = i)
                        => regions[r].position = C8_Key(chunk_converters[i])
    /\ \A r1, r2 \in 1..Len(regions) :
          regions[r1].position = regions[r2].position => r1 = r2
    /\ Len(saved) <= Len(regions)
    /\ \A k \in 1..Len(saved) :
          /\ saved[k].position = regions[k].position
          /\ { saved[k].chunks[j] : j \in 1..Len(saved[k].chunks) }
                = C8_Destined(saved[k].position)
          /\ Len(saved[k].chunks) = Cardinality(C8_Destined(saved[k].position))
    /\ pc = "done" =>
          { saved[k].position : k \in 1..Len(saved) }
              = { C8_Key(chunk_converters[i]) : i \in 1..Len(chunk_converters) }

\* a finished run with two regions saved, one holding chunks of two
\* positions, one of a negative region coordinate
C8_Witness ==
    /\ pc = "done"
    /\ Len(saved) >= 2
    /\ \E k \in 1..Len(saved) :
          \E a, b \in 1..Len(saved[k].chunks) :
              ConverterPosition(chunk_converters[saved[k].chunks[a]])
                  # ConverterPosition(chunk_converters[saved[k].chunks[b]])
    /\ \E k \in 1..Len(saved) : saved[k].position[1] < 0

\* C9: recover_data and fix_cdb_index have finished before any chunk is
\* decoded, and a decoded chunk was read from the (slot, subfile) that the
\* index names for its position after the repair
C9_DecodeReadsRepairedIndex ==
    \A i \in 1..Len(chunk_converters) :
        chunk_converters[i].placed =>
            /\ fixRuns = 1
            /\ pc \in {"convert_chunks", "save_regions", "done", "failed", "aborted"}
            /\ indexFile.kind = "index"
            /\ \A k \in 1..Len(indexFile.entries) :
                  parse_position(indexFile.entries[k].position)
                        = ConverterPosition(chunk_converters[i])
                    => source_of(chunk_converters[i])
                        = <<indexFile.entries[k].slot, indexFile.entries[k].subfile>>

\* C10: no two chunks handed to the regions are of the same position
C10_OneChunkPerPosition ==
    \A i, j \in 1..Len(chunk_converters) :
        ( /\ chunk_converters[i].placed
          /\ chunk_converters[j].placed
          /\ ConverterPosition(chunk_converters[i]) = ConverterPosition(chunk_converters[j]) )
        => i = j

====
